---- MODULE Spec2Model ----
(***************************************************************************)
(* Palette quantization and grid rasterization pipeline of                 *)
(* src/services/geminiService.ts: generateStrictPalette,                   *)
(* findNearestColorId and enforcePixelGrid, with the colour helpers        *)
(* rgbToHex and getContrastColor.                                          *)
(*                                                                         *)
(* One behaviour is one call of enforcePixelGrid on one downsampled        *)
(* resolution x resolution RGBA buffer.  The phases of the onload handler  *)
(* run in program order, sequenced by pc.                                  *)
(***************************************************************************)
EXTENDS Integers, Sequences, FiniteSets

VARIABLES resolution, maxColors, data, pc, palette, draft, pixelMap,
          usedPalette, canvas, outcome, failure, finalSize

\* The React state of App (src/App.tsx) and the service calls it has pending.
\* resolutionState and maxColorsState are App's resolution and maxColors.
VARIABLES refImages, targetImage, result, status, errorMsg, resolutionState,
          maxColorsState, isReprocessing, pending, issued, uploads

appVars == <<refImages, targetImage, result, status, errorMsg, resolutionState,
             maxColorsState, isReprocessing, pending, issued, uploads>>

gridVars == <<resolution, maxColors, data, pc, palette, draft, pixelMap,
              usedPalette, canvas, outcome, failure, finalSize>>

vars == <<resolution, maxColors, data, pc, palette, draft, pixelMap,
          usedPalette, canvas, outcome, failure, finalSize, appVars>>

(***************************************************************************)
(* Bounds and inputs                                                       *)
(***************************************************************************)

\* maxColors ranges over -1 .. MaxMaxColors in the enumerated runs.
MaxMaxColors == 3

MaxColorsRange == (0 - 1)..MaxMaxColors

\* Grid sizes of the enumerated runs (the scenario runs add 10 and 64).
Resolutions == {1, 2}

Px(r, g, b, a) == [r |-> r, g |-> g, b |-> b, a |-> a]

\* Pixel values of the enumerated runs: five colours, each at the two alpha
\* values around the threshold, and one fully transparent pixel.  The grey
\* (128,128,128) has luminance exactly 128.
Colours == {<<255, 0, 0>>, <<0, 0, 255>>, <<10, 10, 10>>, <<8, 8, 8>>,
            <<128, 128, 128>>}

Pixels == {Px(c[1], c[2], c[3], a) : c \in Colours, a \in {128, 129}}
            \cup {Px(0, 0, 0, 0)}

\* 64x64, opaque: 3072 cells of pure red, then 1024 cells of pure blue.
RedBlueBuffer == [i \in 1..4096 |-> IF i <= 3072 THEN Px(255, 0, 0, 255)
                                                  ELSE Px(0, 0, 255, 255)]

\* 10x10, opaque, every pixel (10,10,10).
GrayBuffer == [i \in 1..100 |-> Px(10, 10, 10, 255)]

\* 2x2, opaque: (8,8,8) and (9,9,9) share a bucket, (10,10,10) and blue do
\* not.
NearGreyBuffer == <<Px(8, 8, 8, 255), Px(9, 9, 9, 255), Px(10, 10, 10, 255),
                    Px(0, 0, 255, 255)>>

(***************************************************************************)
(* Arithmetic of the source                                                *)
(***************************************************************************)

\* Math.round(num / den) for num >= 0, den > 0: floor(num/den + 1/2).
MathRound(num, den) == (2 * num + den) \div (2 * den)

\* Variant: truncation in place of Math.round.
BucketTruncated(v) == (v \div 4) * 4

\* Math.round(v / 4) * 4
Bucket(v) == MathRound(v, 4) * 4

\* data[i + 3] < 128 => continue : the pixel enters the histogram otherwise.
InHistogram(a) == ~(a < 128)

\* Variant: the histogram's test reused for classification.
IsOpaqueFrom128(a) == a >= 128

\* if (a > 128) : the cell is classified; otherwise it is left 0.
IsOpaque(a) == a > 128

distSq(c1, c2) == (c1.r - c2.r) * (c1.r - c2.r) + (c1.g - c2.g) * (c1.g - c2.g)
                    + (c1.b - c2.b) * (c1.b - c2.b)

HexDigits == <<"0", "1", "2", "3", "4", "5", "6", "7",
               "8", "9", "a", "b", "c", "d", "e", "f">>

\* Number.prototype.toString(16) for an integer x >= 0
RECURSIVE ToString16(_)
ToString16(x) == IF x < 16 THEN <<HexDigits[x + 1]>>
                 ELSE ToString16(x \div 16) \o <<HexDigits[(x % 16) + 1]>>

\* String.prototype.padStart(2, '0')
PadStart2(s) == IF Len(s) >= 2 THEN s
                ELSE IF Len(s) = 1 THEN <<"0">> \o s ELSE <<"0", "0">>

\* "#" + [r, g, b].map(x => x.toString(16).padStart(2, '0')).join('')
rgbToHex(r, g, b) == <<"#">> \o PadStart2(ToString16(r)) \o PadStart2(ToString16(g))
                       \o PadStart2(ToString16(b))

\* Variant: a strict comparison at the threshold.
getContrastColorStrict(r, g, b) ==
    IF r * 299 + g * 587 + b * 114 > 128 * 1000 THEN "#000000" ELSE "#FFFFFF"

\* yiq = (299 r + 587 g + 114 b) / 1000; yiq >= 128 ? black : white
getContrastColor(r, g, b) ==
    IF r * 299 + g * 587 + b * 114 >= 128 * 1000 THEN "#000000" ELSE "#FFFFFF"

(***************************************************************************)
(* generateStrictPalette, step 1: histogram                                *)
(***************************************************************************)

\* Position of the Map entry whose key is (r,g,b), 0 if none.
KeyIndex(hist, r, g, b) ==
    LET hit == {k \in 1..Len(hist) : hist[k].r = r /\ hist[k].g = g /\ hist[k].b = b}
    IN IF hit = {} THEN 0 ELSE CHOOSE k \in hit : TRUE

\* One iteration of the histogram loop.  hist is colorMap.values(): the Map's
\* entries in insertion order, each keyed by its bucketed (r,g,b).
AddPixel(hist, p) ==
    IF ~InHistogram(p.a) THEN hist
    ELSE LET rR == Bucket(p.r)
             gR == Bucket(p.g)
             bR == Bucket(p.b)
             k  == KeyIndex(hist, rR, gR, bR)
         IN IF k # 0 THEN [hist EXCEPT ![k].count = @ + 1]
            ELSE Append(hist, [r |-> rR, g |-> gR, b |-> bR, count |-> 1])

\* The loop over pixels lo..hi in index order, starting from acc: the first
\* half of the range is run to its end before the second half starts from its
\* result (the test on left only fixes that evaluation order).
RECURSIVE HistogramLoop(_, _, _, _)
HistogramLoop(buf, lo, hi, acc) ==
    IF lo > hi THEN acc
    ELSE IF lo = hi THEN AddPixel(acc, buf[lo])
    ELSE LET mid  == (lo + hi) \div 2
             left == HistogramLoop(buf, lo, mid, acc)
         IN IF Len(left) >= 0 THEN HistogramLoop(buf, mid + 1, hi, left) ELSE left

BuildHistogram(buf) == HistogramLoop(buf, 1, Len(buf), <<>>)

(***************************************************************************)
(* generateStrictPalette, step 2: iterative greedy merge                   *)
(***************************************************************************)

\* Scan state: inf is "minD = Infinity"; idx1, idx2 index the working palette
\* from 1, and 0 stands for the source's -1.
ScanInit == [inf |-> TRUE, minD |-> 0, idx1 |-> 0, idx2 |-> 0]

\* d < minD
Closer(d, s) == s.inf \/ d < s.minD

\* for (j = i + 1; j < palette.length; j++) { ... if (d === 0) break; }
RECURSIVE InnerScan(_, _, _, _)
InnerScan(pal, i, j, s) ==
    IF j > Len(pal) THEN s
    ELSE LET d == distSq(pal[i], pal[j])
         IN IF Closer(d, s)
            THEN LET t == [inf |-> FALSE, minD |-> d, idx1 |-> i, idx2 |-> j]
                 IN IF d = 0 THEN t ELSE InnerScan(pal, i, j + 1, t)
            ELSE InnerScan(pal, i, j + 1, s)

\* for (i = 0; i < palette.length - 1; i++) { ... if (minD === 0) break; }
RECURSIVE OuterScan(_, _, _)
OuterScan(pal, i, s) ==
    IF i > Len(pal) - 1 THEN s
    ELSE LET t == InnerScan(pal, i, i + 1, s)
         IN IF ~t.inf /\ t.minD = 0 THEN t ELSE OuterScan(pal, i + 1, t)

\* Variant: d <= minD, so the last of several closest pairs wins.
RECURSIVE InnerScanLast(_, _, _, _)
InnerScanLast(pal, i, j, s) ==
    IF j > Len(pal) THEN s
    ELSE LET d == distSq(pal[i], pal[j])
         IN IF s.inf \/ d <= s.minD
            THEN InnerScanLast(pal, i, j + 1,
                               [inf |-> FALSE, minD |-> d, idx1 |-> i, idx2 |-> j])
            ELSE InnerScanLast(pal, i, j + 1, s)

RECURSIVE OuterScanLast(_, _, _)
OuterScanLast(pal, i, s) ==
    IF i > Len(pal) - 1 THEN s
    ELSE OuterScanLast(pal, i + 1, InnerScanLast(pal, i, i + 1, s))

ClosestPairLast(pal) == OuterScanLast(pal, 1, ScanInit)

ClosestPair(pal) == OuterScan(pal, 1, ScanInit)

\* Variant: c1 keeps its own count.
MergedColorKeepCount(c1, c2) ==
    LET total == c1.count + c2.count
    IN [r |-> MathRound(c1.r * c1.count + c2.r * c2.count, total),
        g |-> MathRound(c1.g * c1.count + c2.g * c2.count, total),
        b |-> MathRound(c1.b * c1.count + c2.b * c2.count, total),
        count |-> c1.count]

\* Count-weighted average of c1 and c2, written into c1.
MergedColor(c1, c2) ==
    LET total == c1.count + c2.count
    IN [r |-> MathRound(c1.r * c1.count + c2.r * c2.count, total),
        g |-> MathRound(c1.g * c1.count + c2.g * c2.count, total),
        b |-> MathRound(c1.b * c1.count + c2.b * c2.count, total),
        count |-> total]

\* Variant: the pop without the move, so the last entry is the one removed.
MergePairDropLast(pal, idx1, idx2) ==
    LET merged == [pal EXCEPT ![idx1] = MergedColor(pal[idx1], pal[idx2])]
    IN SubSeq(merged, 1, Len(pal) - 1)

\* Variant: the move without the pop.
MergePairNoPop(pal, idx1, idx2) ==
    LET merged == [pal EXCEPT ![idx1] = MergedColor(pal[idx1], pal[idx2])]
    IN [merged EXCEPT ![idx2] = merged[Len(pal)]]

\* Merge idx2 into idx1, then palette[idx2] = palette[last]; palette.pop().
MergePair(pal, idx1, idx2) ==
    LET merged == [pal EXCEPT ![idx1] = MergedColor(pal[idx1], pal[idx2])]
        moved  == [merged EXCEPT ![idx2] = merged[Len(pal)]]
    IN SubSeq(moved, 1, Len(pal) - 1)

(***************************************************************************)
(* generateStrictPalette, step 3: final palette items                      *)
(***************************************************************************)

\* Variant: the comparator's operands swapped (ascending counts).
RECURSIVE InsertByCountAscending(_, _)
InsertByCountAscending(sorted, e) ==
    IF sorted = <<>> THEN <<e>>
    ELSE IF Head(sorted).count <= e.count
         THEN <<Head(sorted)>> \o InsertByCountAscending(Tail(sorted), e)
         ELSE <<e>> \o sorted

\* Array.prototype.sort is stable: e goes after every entry that does not
\* compare greater than it.
RECURSIVE InsertByCount(_, _)
InsertByCount(sorted, e) ==
    IF sorted = <<>> THEN <<e>>
    ELSE IF Head(sorted).count >= e.count
         THEN <<Head(sorted)>> \o InsertByCount(Tail(sorted), e)
         ELSE <<e>> \o sorted

\* palette.sort((a, b) => b.count - a.count)
RECURSIVE SortByCountDesc(_)
SortByCountDesc(pal) ==
    IF pal = <<>> THEN <<>>
    ELSE InsertByCount(SortByCountDesc(SubSeq(pal, 1, Len(pal) - 1)), pal[Len(pal)])

ToPaletteItem(p, idx) ==
    [id |-> idx + 1, r |-> p.r, g |-> p.g, b |-> p.b,
     hex |-> rgbToHex(p.r, p.g, p.b), count |-> 0,
     textColor |-> getContrastColor(p.r, p.g, p.b)]

ToPaletteItems(pal) ==
    LET sorted == SortByCountDesc(pal)
    IN [k \in 1..Len(sorted) |-> ToPaletteItem(sorted[k], k - 1)]

(***************************************************************************)
(* findNearestColorId                                                      *)
(***************************************************************************)

\* Variant: d <= minD, so the last of several nearest entries wins.
RECURSIVE NearestScanLast(_, _, _, _, _, _)
NearestScanLast(r, g, b, items, k, s) ==
    IF k > Len(items) THEN s.id
    ELSE LET d == distSq(items[k], [r |-> r, g |-> g, b |-> b])
         IN IF s.inf \/ d <= s.minD
            THEN NearestScanLast(r, g, b, items, k + 1,
                                 [inf |-> FALSE, minD |-> d, id |-> items[k].id])
            ELSE NearestScanLast(r, g, b, items, k + 1, s)

findNearestColorIdLast(r, g, b, items) ==
    NearestScanLast(r, g, b, items, 1, [inf |-> TRUE, minD |-> 0, id |-> 0])

RECURSIVE NearestScan(_, _, _, _, _, _)
NearestScan(r, g, b, items, k, s) ==
    IF k > Len(items) THEN s.id
    ELSE LET d == distSq(items[k], [r |-> r, g |-> g, b |-> b])
         IN IF s.inf \/ d < s.minD
            THEN NearestScan(r, g, b, items, k + 1,
                             [inf |-> FALSE, minD |-> d, id |-> items[k].id])
            ELSE NearestScan(r, g, b, items, k + 1, s)

findNearestColorId(r, g, b, items) ==
    NearestScan(r, g, b, items, 1, [inf |-> TRUE, minD |-> 0, id |-> 0])

(***************************************************************************)
(* enforcePixelGrid                                                        *)
(***************************************************************************)

Max(a, b) == IF a >= b THEN a ELSE b

\* Math.max(16, Math.floor(1200 / resolution))
pixelScale(res) == Max(16, 1200 \div res)

\* palette.find(p => p.id === pid): position of the first match, 0 if none.
FindById(items, pid) ==
    LET hit == {k \in 1..Len(items) : items[k].id = pid}
    IN IF hit = {} THEN 0 ELSE CHOOSE k \in hit : \A m \in hit : k <= m

\* Body of the pass-1 loop for cell k (k = y * resolution + x + 1).
MapCell(acc, buf, k) ==
    LET p == buf[k]
    IN IF IsOpaque(p.a)
       THEN LET pid == findNearestColorId(p.r, p.g, p.b, acc.items)
                at  == FindById(acc.items, pid)
            IN [items |-> IF at # 0 THEN [acc.items EXCEPT ![at].count = @ + 1]
                          ELSE acc.items,
                map   |-> [acc.map EXCEPT ![k] = pid]]
       ELSE [acc EXCEPT !.map[k] = 0]

RECURSIVE MapLoop(_, _, _, _)
MapLoop(buf, lo, hi, acc) ==
    IF lo > hi THEN acc
    ELSE IF lo = hi THEN MapCell(acc, buf, lo)
    ELSE LET mid  == (lo + hi) \div 2
             left == MapLoop(buf, lo, mid, acc)
         IN IF Len(left.items) >= 0 THEN MapLoop(buf, mid + 1, hi, left) ELSE left

\* Pass 1 over all cells, from the draft palette and a zero-filled pixelMap.
MapPixelsToPalette(buf, items, res) ==
    MapLoop(buf, 1, res * res, [items |-> items, map |-> [k \in 1..(res * res) |-> 0]])

\* Variant: the comparator's operands swapped (descending ids).
RECURSIVE InsertByIdDescending(_, _)
InsertByIdDescending(sorted, e) ==
    IF sorted = <<>> THEN <<e>>
    ELSE IF Head(sorted).id >= e.id
         THEN <<Head(sorted)>> \o InsertByIdDescending(Tail(sorted), e)
         ELSE <<e>> \o sorted

RECURSIVE InsertById(_, _)
InsertById(sorted, e) ==
    IF sorted = <<>> THEN <<e>>
    ELSE IF Head(sorted).id <= e.id
         THEN <<Head(sorted)>> \o InsertById(Tail(sorted), e)
         ELSE <<e>> \o sorted

RECURSIVE SortById(_)
SortById(items) ==
    IF items = <<>> THEN <<>>
    ELSE InsertById(SortById(SubSeq(items, 1, Len(items) - 1)), items[Len(items)])

\* Variant: the filter keeps every draft entry.
UsedOrNot(p) == p.count >= 0

\* Variant: the filter also drops the entries used once.
UsedMoreThanOnce(p) == p.count > 1

Used(p) == p.count > 0

\* Variant: the kept entries are renumbered 1..n.
FilterUsedRenumbered(items) ==
    LET kept == SelectSeq(items, Used)
    IN [k \in 1..Len(kept) |-> [kept[k] EXCEPT !.id = k]]

\* palette.filter(p => p.count > 0).sort((a, b) => a.id - b.id)
FilterUsed(items) == SortById(SelectSeq(items, Used))

\* A cell of the output raster: the white base layer, or a drawn block.
WhiteCell == [block |-> FALSE, r |-> 255, g |-> 255, b |-> 255, outline |-> FALSE,
              label |-> 0, textColor |-> "", drawX |-> 0, drawY |-> 0, size |-> 0]

\* The channel a canvas paints for fillStyle = `rgb(${r},${g},${b})`: the
\* colour parser clamps each component to 0..255.
FillChannel(v) == IF v > 255 THEN 255 ELSE IF v < 0 THEN 0 ELSE v

\* Body of the pass-2 loop for cell k.
DrawCell(map, used, res, k) ==
    LET pid == map[k]
        at  == FindById(used, pid)
        x   == (k - 1) % res
        y   == (k - 1) \div res
    IN IF pid = 0 \/ at = 0 THEN WhiteCell
       ELSE [block |-> TRUE, r |-> FillChannel(used[at].r),
             g |-> FillChannel(used[at].g), b |-> FillChannel(used[at].b),
             outline |-> TRUE, label |-> pid, textColor |-> used[at].textColor,
             drawX |-> x * pixelScale(res), drawY |-> y * pixelScale(res),
             size |-> pixelScale(res)]

DrawBlocks(map, used, res) == [k \in 1..(res * res) |-> DrawCell(map, used, res, k)]

(***************************************************************************)
(* State machine: one call of enforcePixelGrid                             *)
(***************************************************************************)

EnumeratedRuns ==
    {[res |-> n, buf |-> d, max |-> m] :
        n \in Resolutions, d \in UNION {[1..(q * q) -> Pixels] : q \in Resolutions},
        m \in MaxColorsRange}

ScenarioRuns ==
    {[res |-> 64, buf |-> RedBlueBuffer, max |-> 32],
     [res |-> 64, buf |-> RedBlueBuffer, max |-> 1],
     [res |-> 10, buf |-> GrayBuffer, max |-> 8],
     [res |-> 2, buf |-> NearGreyBuffer, max |-> 2]}

Runs == {run \in EnumeratedRuns : Len(run.buf) = run.res * run.res} \cup ScenarioRuns

\* result === null
NoResult == [rawBase64 |-> 0, resolution |-> 0, target |-> 0]

\* The useState initial values of App; no service call has been made.
AppAtRest ==
    /\ refImages = 0
    /\ targetImage = 0
    /\ result = NoResult
    /\ status = "IDLE"
    /\ errorMsg = ""
    /\ resolutionState = 64
    /\ maxColorsState = 32
    /\ isReprocessing = FALSE
    /\ pending = {}
    /\ issued = 0
    /\ uploads = 0

Init ==
    /\ AppAtRest
    /\ \E run \in Runs :
          /\ resolution = run.res
          /\ data = run.buf
          /\ maxColors = run.max
    /\ pc = "pending"
    /\ palette = <<>>
    /\ draft = <<>>
    /\ pixelMap = <<>>
    /\ usedPalette = <<>>
    /\ canvas = <<>>
    /\ outcome = "none"
    /\ failure = ""
    /\ finalSize = 0

\* img.onerror = reject
OnError ==
    /\ pc = "pending"
    /\ pc' = "done"
    /\ outcome' = "rejected"
    /\ failure' = "error event"
    /\ UNCHANGED <<resolution, maxColors, data, palette, draft, pixelMap,
                   usedPalette, canvas,
                   finalSize>>
    /\ UNCHANGED appVars

\* if (!tinyCtx) { reject(...); return; }
TinyCtxFailed ==
    /\ pc = "pending"
    /\ pc' = "done"
    /\ outcome' = "rejected"
    /\ failure' = "Canvas context failed"
    /\ UNCHANGED <<resolution, maxColors, data, palette, draft, pixelMap,
                   usedPalette, canvas,
                   finalSize>>
    /\ UNCHANGED appVars

\* onload up to the end of the histogram loop of generateStrictPalette.
Histogram ==
    /\ pc = "pending"
    /\ palette' = BuildHistogram(data)
    /\ pc' = "reduce"
    /\ UNCHANGED <<resolution, maxColors, data, draft, pixelMap, usedPalette,
                   canvas, outcome, failure,
                   finalSize>>
    /\ UNCHANGED appVars

\* Variant: the loop stops one entry early.
CanMergeAboveBudget == Len(palette) > maxColors + 1 /\ ClosestPair(palette).idx1 # 0

\* Variant: palette.length >= maxColors, one iteration more.
CanMergeAtBudget == Len(palette) >= maxColors /\ ClosestPair(palette).idx1 # 0

\* One iteration of while (palette.length > maxColors) that finds a pair.
CanMerge == Len(palette) > maxColors /\ ClosestPair(palette).idx1 # 0

MergeStep ==
    /\ pc = "reduce"
    /\ CanMerge
    /\ LET s == ClosestPair(palette)
       IN palette' = MergePair(palette, s.idx1, s.idx2)
    /\ UNCHANGED <<resolution, maxColors, data, pc, draft, pixelMap, usedPalette,
                   canvas, outcome, failure,
                   finalSize>>
    /\ UNCHANGED appVars

\* Loop exit (condition false, or the break), then sort and map to items;
\* back in enforcePixelGrid the final canvas gets its size.
Materialize ==
    /\ pc = "reduce"
    /\ ~CanMerge
    /\ draft' = ToPaletteItems(palette)
    /\ finalSize' = resolution * pixelScale(resolution)
    /\ pc' = "canvas"
    /\ UNCHANGED <<resolution, maxColors, data, palette, pixelMap, usedPalette,
                   canvas, outcome, failure>>
    /\ UNCHANGED appVars

\* Variant: reject without the return, so the handler runs on.
FinalCtxFailedNoReturn ==
    /\ pc = "canvas"
    /\ outcome = "none"
    /\ outcome' = "rejected"
    /\ failure' = "Final Canvas context failed"
    /\ UNCHANGED <<resolution, maxColors, data, pc, palette, draft, pixelMap,
                   usedPalette, canvas, finalSize>>
    /\ UNCHANGED appVars

\* if (!finalCtx) { reject(...); return; }
FinalCtxFailed ==
    /\ pc = "canvas"
    /\ pc' = "done"
    /\ outcome' = "rejected"
    /\ failure' = "Final Canvas context failed"
    /\ UNCHANGED <<resolution, maxColors, data, palette, draft, pixelMap,
                   usedPalette, canvas,
                   finalSize>>
    /\ UNCHANGED appVars

\* Variant: pass 1 also writes each classified cell's palette colour back
\* into the buffer.
MapPixelsInPlace ==
    /\ pc = "canvas"
    /\ LET done == MapPixelsToPalette(data, draft, resolution)
       IN /\ draft' = done.items
          /\ pixelMap' = done.map
          /\ data' = [k \in 1..Len(data) |->
                        IF done.map[k] = 0 THEN data[k]
                        ELSE [data[k] EXCEPT !.r = draft[done.map[k]].r,
                                             !.g = draft[done.map[k]].g,
                                             !.b = draft[done.map[k]].b]]
    /\ canvas' = [k \in 1..(resolution * resolution) |-> WhiteCell]
    /\ pc' = "filter"
    /\ UNCHANGED <<resolution, maxColors, palette, usedPalette, outcome,
                   failure, finalSize>>
    /\ UNCHANGED appVars

\* White base layer, then pass 1: the counts are written into the draft items.
MapPixels ==
    /\ pc = "canvas"
    /\ LET done == MapPixelsToPalette(data, draft, resolution)
       IN /\ draft' = done.items
          /\ pixelMap' = done.map
    /\ canvas' = [k \in 1..(resolution * resolution) |-> WhiteCell]
    /\ pc' = "filter"
    /\ UNCHANGED <<resolution, maxColors, data, palette, usedPalette, outcome,
                   failure,
                   finalSize>>
    /\ UNCHANGED appVars

FilterPalette ==
    /\ pc = "filter"
    /\ usedPalette' = FilterUsed(draft)
    /\ pc' = "draw"
    /\ UNCHANGED <<resolution, maxColors, data, palette, draft, pixelMap, canvas,
                   outcome, failure,
                   finalSize>>
    /\ UNCHANGED appVars

\* Pass 2, then resolve({imageUrl, palette: usedPalette, resolution}).
DrawAndResolve ==
    /\ pc = "draw"
    /\ canvas' = DrawBlocks(pixelMap, usedPalette, resolution)
    /\ outcome' = "resolved"
    /\ pc' = "done"
    /\ UNCHANGED <<resolution, maxColors, data, palette, draft, pixelMap,
                   usedPalette, failure,
                   finalSize>>
    /\ UNCHANGED appVars

Next ==
    \/ OnError
    \/ TinyCtxFailed
    \/ Histogram
    \/ MergeStep
    \/ Materialize
    \/ FinalCtxFailed
    \/ MapPixels
    \/ FilterPalette
    \/ DrawAndResolve

Spec == Init /\ [][Next]_vars

\* The runs on fully counted 2x2 buffers without the grey (128,128,128).
ReductionRuns ==
    {run \in Runs : /\ Len(run.buf) = 4
                    /\ \A k \in 1..4 : run.buf[k].a > 128 /\ run.buf[k].r # 128}

ReductionInit ==
    /\ Init
    /\ [res |-> resolution, buf |-> data, max |-> maxColors] \in ReductionRuns

\* The reduction loop is synchronous code: once entered it keeps running, one
\* iteration after the other, until it is left.
ReductionSpec == ReductionInit /\ [][Next]_vars /\ WF_vars(MergeStep \/ Materialize)

(***************************************************************************)
(* App (src/App.tsx): the event handlers and the completions of the        *)
(* service calls they await.  refImages is the length of the array,        *)
(* targetImage and rawBase64 are identities (0 for null), and a result     *)
(* also records the target its image was generated for.  React re-renders  *)
(* after every event, so a handler reads the state of the moment it runs;  *)
(* what it reads before an await is kept in the pending call.              *)
(***************************************************************************)

\* Reference images held at most, target uploads and service calls made at
\* most in one behaviour.
MaxRefs == 2

MaxUploads == 2

MaxCalls == 2

\* Position the range input (min 20, max 200, step 2) is moved to.
SliderValues == {200}

\* What parseInt returns for the text typed into the number input; the min
\* and max attributes do not restrict typed text.
TypedValues == {1, 300}

Min(a, b) == IF a <= b THEN a ELSE b

\* No core call is stepped while App is: its variables stay at a call with
\* App's initial parameters that has not started.
GridAtRest ==
    /\ resolution = 64
    /\ maxColors = 32
    /\ data = <<>>
    /\ pc = "pending"
    /\ palette = <<>>
    /\ draft = <<>>
    /\ pixelMap = <<>>
    /\ usedPalette = <<>>
    /\ canvas = <<>>
    /\ outcome = "none"
    /\ failure = ""
    /\ finalSize = 0

AppInit == AppAtRest /\ GridAtRest

\* handleRefUpload with n files: [...prev, ...newImages].slice(0, 10)
handleRefUpload ==
    /\ refImages < 10
    /\ \E n \in 1..2 :
          /\ refImages + n <= MaxRefs
          /\ refImages' = Min(refImages + n, 10)
    /\ UNCHANGED <<targetImage, result, status, errorMsg, resolutionState,
                   maxColorsState, isReprocessing, pending, issued, uploads>>
    /\ UNCHANGED gridVars

removeRefImage ==
    /\ refImages > 0
    /\ refImages' = refImages - 1
    /\ UNCHANGED <<targetImage, result, status, errorMsg, resolutionState,
                   maxColorsState, isReprocessing, pending, issued, uploads>>
    /\ UNCHANGED gridVars

\* The uploader is rendered only while there is no target image.
handleTargetUpload ==
    /\ targetImage = 0
    /\ uploads < MaxUploads
    /\ uploads' = uploads + 1
    /\ targetImage' = uploads + 1
    /\ result' = NoResult
    /\ status' = "IDLE"
    /\ UNCHANGED <<refImages, errorMsg, resolutionState, maxColorsState,
                   isReprocessing, pending, issued>>
    /\ UNCHANGED gridVars

\* CHANGE: onClick={() => setTargetImage(null)}
ChangeTarget ==
    /\ targetImage # 0
    /\ targetImage' = 0
    /\ UNCHANGED <<refImages, result, status, errorMsg, resolutionState,
                   maxColorsState, isReprocessing, pending, issued, uploads>>
    /\ UNCHANGED gridVars

\* Slider onChange: setResolution(parseInt(e.target.value))
SetResolution ==
    /\ \E v \in SliderValues : resolutionState' = v
    /\ UNCHANGED <<refImages, targetImage, result, status, errorMsg,
                   maxColorsState, isReprocessing, pending, issued, uploads>>
    /\ UNCHANGED gridVars

\* Number input onChange: if (!isNaN(val)) setMaxColors(val)
ChangeMaxColors ==
    /\ \E val \in TypedValues : maxColorsState' = val
    /\ UNCHANGED <<refImages, targetImage, result, status, errorMsg,
                   resolutionState, isReprocessing, pending, issued, uploads>>
    /\ UNCHANGED gridVars

\* Number input onBlur: setMaxColors(prev => Math.max(2, Math.min(256, prev)))
BlurMaxColors ==
    /\ maxColorsState' = Max(2, Min(256, maxColorsState))
    /\ UNCHANGED <<refImages, targetImage, result, status, errorMsg,
                   resolutionState, isReprocessing, pending, issued, uploads>>
    /\ UNCHANGED gridVars

\* disabled={status === GENERATING || !targetImage || refImages.length < 2}
GenerateDisabled == status = "GENERATING" \/ targetImage = 0 \/ refImages < 2

\* Click on the enabled button: handleGenerate up to its await.
handleGenerate ==
    /\ ~GenerateDisabled
    /\ issued < MaxCalls
    /\ IF targetImage = 0 \/ refImages < 2
       THEN /\ errorMsg' = "Please upload at least 2 reference images and 1 target image."
            /\ UNCHANGED <<status, pending, issued>>
       ELSE /\ status' = "GENERATING"
            /\ errorMsg' = ""
            /\ issued' = issued + 1
            /\ pending' = pending \cup
                  {[id |-> issued + 1, fn |-> "generatePixelArtRefactor",
                    target |-> targetImage, rawBase64 |-> 0,
                    resolution |-> resolutionState, maxColors |-> maxColorsState]}
    /\ UNCHANGED <<refImages, targetImage, result, resolutionState, maxColorsState,
                   isReprocessing, uploads>>
    /\ UNCHANGED gridVars

\* The awaited generatePixelArtRefactor resolves: the image data the service
\* received is new (named after the call), and comes back as rawBase64.
GenerateResolved ==
    /\ \E c \in pending :
          /\ c.fn = "generatePixelArtRefactor"
          /\ pending' = pending \ {c}
          /\ result' = [rawBase64 |-> c.id, resolution |-> c.resolution,
                        target |-> c.target]
    /\ status' = "SUCCESS"
    /\ UNCHANGED <<refImages, targetImage, errorMsg, resolutionState,
                   maxColorsState, isReprocessing, issued, uploads>>
    /\ UNCHANGED gridVars

\* The awaited generatePixelArtRefactor rejects (the service always throws an
\* Error with a message).
GenerateRejected ==
    /\ \E c \in pending :
          /\ c.fn = "generatePixelArtRefactor"
          /\ pending' = pending \ {c}
    /\ status' = "ERROR"
    /\ \E message \in {"API Key is missing in environment variables.",
                        "Failed to generate pixel art."} : errorMsg' = message
    /\ UNCHANGED <<refImages, targetImage, result, resolutionState, maxColorsState,
                   isReprocessing, issued, uploads>>
    /\ UNCHANGED gridVars

\* The button is rendered when result?.rawBase64 and disabled={isReprocessing};
\* handleReprocess returns at once without result?.rawBase64, and otherwise
\* runs up to its await.
handleReprocess ==
    /\ result.rawBase64 # 0
    /\ ~isReprocessing
    /\ issued < MaxCalls
    /\ isReprocessing' = TRUE
    /\ issued' = issued + 1
    /\ pending' = pending \cup
          {[id |-> issued + 1, fn |-> "reprocessPixelArt", target |-> result.target,
            rawBase64 |-> result.rawBase64, resolution |-> resolutionState,
            maxColors |-> maxColorsState]}
    /\ UNCHANGED <<refImages, targetImage, result, status, errorMsg,
                   resolutionState, maxColorsState, uploads>>
    /\ UNCHANGED gridVars

\* Variant: the catch of handleGenerate in handleReprocess.
ReprocessRejectedAsGenerate ==
    /\ \E c \in pending :
          /\ c.fn = "reprocessPixelArt"
          /\ pending' = pending \ {c}
    /\ status' = "ERROR"
    /\ errorMsg' = "Failed to reprocess image."
    /\ isReprocessing' = FALSE
    /\ UNCHANGED <<refImages, targetImage, result, resolutionState,
                   maxColorsState, issued, uploads>>
    /\ UNCHANGED gridVars

\* The awaited reprocessPixelArt resolves with { ...result, rawBase64 }:
\* setResult({ ...newData, rawBase64: result.rawBase64 }), then finally.
ReprocessResolved ==
    /\ \E c \in pending :
          /\ c.fn = "reprocessPixelArt"
          /\ pending' = pending \ {c}
          /\ LET newData == [rawBase64 |-> c.rawBase64, resolution |-> c.resolution,
                             target |-> c.target]
             IN result' = [newData EXCEPT !.rawBase64 = c.rawBase64]
    /\ isReprocessing' = FALSE
    /\ UNCHANGED <<refImages, targetImage, status, errorMsg, resolutionState,
                   maxColorsState, issued, uploads>>
    /\ UNCHANGED gridVars

\* The awaited reprocessPixelArt rejects: catch, then finally.
ReprocessRejected ==
    /\ \E c \in pending :
          /\ c.fn = "reprocessPixelArt"
          /\ pending' = pending \ {c}
    /\ errorMsg' = "Failed to reprocess image."
    /\ isReprocessing' = FALSE
    /\ UNCHANGED <<refImages, targetImage, result, status, resolutionState,
                   maxColorsState, issued, uploads>>
    /\ UNCHANGED gridVars

AppNext ==
    \/ handleRefUpload
    \/ removeRefImage
    \/ handleTargetUpload
    \/ ChangeTarget
    \/ SetResolution
    \/ ChangeMaxColors
    \/ BlurMaxColors
    \/ handleGenerate
    \/ GenerateResolved
    \/ GenerateRejected
    \/ handleReprocess
    \/ ReprocessResolved
    \/ ReprocessRejected

\* enforcePixelGrid settles every call, so the await in handleReprocess ends.
AppSpec ==
    AppInit /\ [][AppNext]_vars /\ WF_vars(ReprocessResolved \/ ReprocessRejected)

(***************************************************************************)
(* Properties                                                              *)
(***************************************************************************)

Resolved == pc = "done" /\ outcome = "resolved"

Cells == 1..Len(data)

\* Cells whose alpha is > 128.
OpaqueCells == {k \in Cells : data[k].a > 128}

RECURSIVE SumCounts(_)
SumCounts(items) == IF items = <<>> THEN 0 ELSE Head(items).count + SumCounts(Tail(items))

AllWhite == \A k \in 1..Len(canvas) : canvas[k] = WhiteCell

\* The draft palette exists from the end of generateStrictPalette on.
DraftReady == pc \in {"canvas", "filter", "draw"} \/ Resolved

\* C1: count conservation. The counts of the palette returned by
\* enforcePixelGrid add up to the number of cells whose alpha is > 128.
C1_CountConservation ==
    Resolved => SumCounts(usedPalette) = Cardinality(OpaqueCells)

\* A resolved run with opaque cells, a cell at alpha exactly 128, and two
\* palette entries.
C1_Witness ==
    /\ Resolved
    /\ Cardinality(OpaqueCells) >= 2
    /\ \E k \in Cells : data[k].a = 128
    /\ Len(usedPalette) >= 2

C3_DegenerateMaxColors ==
    (Resolved /\ maxColors <= 0) => (usedPalette = <<>> /\ AllWhite)

\* C4: histogram transparency threshold. The histogram counts exactly the
\* pixels whose alpha is > 128, so a buffer with every alpha <= 128 gives an
\* empty palette from generateStrictPalette.
C4_HistogramThreshold ==
    /\ pc = "reduce" => SumCounts(palette) = Cardinality(OpaqueCells)
    /\ (DraftReady /\ OpaqueCells = {}) => draft = <<>>

\* C5: transparency exclusion in render. If every cell has alpha <= 128 the
\* result has an empty palette, an all-zero pixelMap and nothing drawn over the
\* white base layer.
C5_TransparencyExclusion ==
    (Resolved /\ \A k \in Cells : data[k].a <= 128) =>
        /\ usedPalette = <<>>
        /\ \A k \in Cells : pixelMap[k] = 0
        /\ AllWhite

\* A resolved run whose cells all have alpha <= 128 while the draft palette is
\* not empty (some cell has alpha exactly 128).
C5_Witness ==
    /\ Resolved
    /\ \A k \in Cells : data[k].a <= 128
    /\ Len(data) = 4
    /\ Len(draft) >= 2

IsUint8(v) == v \in 0..255

\* C6: bucketing range. Every channel of every histogram entry is a multiple of
\* 4 in [0,255], and every channel of every palette item is a valid uint8.
C6_BucketingRange ==
    /\ (pc = "reduce" /\ palette = BuildHistogram(data)) =>
          \A k \in 1..Len(palette) :
              /\ palette[k].r % 4 = 0 /\ IsUint8(palette[k].r)
              /\ palette[k].g % 4 = 0 /\ IsUint8(palette[k].g)
              /\ palette[k].b % 4 = 0 /\ IsUint8(palette[k].b)
    /\ DraftReady =>
          \A k \in 1..Len(draft) :
              IsUint8(draft[k].r) /\ IsUint8(draft[k].g) /\ IsUint8(draft[k].b)

IsHexDigit(ch) == \E d \in 1..16 : HexDigits[d] = ch

HexValue(ch) == (CHOOSE d \in 1..16 : HexDigits[d] = ch) - 1

\* hex is "#" and two hexadecimal digits per channel that encode r, g, b.
WellFormedHex(item) ==
    /\ Len(item.hex) = 7
    /\ item.hex[1] = "#"
    /\ \A i \in 2..7 : IsHexDigit(item.hex[i])
    /\ 16 * HexValue(item.hex[2]) + HexValue(item.hex[3]) = item.r
    /\ 16 * HexValue(item.hex[4]) + HexValue(item.hex[5]) = item.g
    /\ 16 * HexValue(item.hex[6]) + HexValue(item.hex[7]) = item.b

\* C7: hex encoding. Every palette item's hex is "#" followed by exactly 6
\* hexadecimal digits, two per channel, encoding its r, g, b.
C7_HexEncoding ==
    DraftReady => \A k \in 1..Len(draft) : WellFormedHex(draft[k])

\* C8: forced merge scenario. 64x64, 3072 red and 1024 blue cells,
\* maxColors = 1: one entry with r = 191, g = 0, b = 64, count = 4096.
C8_ForcedMerge ==
    (Resolved /\ data = RedBlueBuffer /\ maxColors = 1) =>
        /\ Len(usedPalette) = 1
        /\ usedPalette[1].r = 191
        /\ usedPalette[1].g = 0
        /\ usedPalette[1].b = 64
        /\ usedPalette[1].count = 4096

\* C9: no-merge scenario. Same buffer, maxColors = 32: id 1 is red (255,0,0)
\* with count 3072 and id 2 is blue (0,0,255) with count 1024.
C9_NoMerge ==
    (Resolved /\ data = RedBlueBuffer /\ maxColors = 32) =>
        /\ Len(usedPalette) = 2
        /\ usedPalette[1].id = 1
        /\ <<usedPalette[1].r, usedPalette[1].g, usedPalette[1].b>> = <<255, 0, 0>>
        /\ usedPalette[1].count = 3072
        /\ usedPalette[2].id = 2
        /\ <<usedPalette[2].r, usedPalette[2].g, usedPalette[2].b>> = <<0, 0, 255>>
        /\ usedPalette[2].count = 1024

GrayScenario == Resolved /\ data = GrayBuffer /\ maxColors = 8

\* C10 as stated: 10x10 of (10,10,10), maxColors = 8: one entry with
\* r = g = b = 8 and textColor "#FFFFFF".
C10_SingleColourAsStated ==
    GrayScenario =>
        /\ Len(usedPalette) = 1
        /\ <<usedPalette[1].r, usedPalette[1].g, usedPalette[1].b>> = <<8, 8, 8>>
        /\ usedPalette[1].textColor = "#FFFFFF"

\* C10 (amended): 10x10 of (10,10,10), maxColors = 8: the palette has exactly
\* one entry, with r = g = b = 12 (Math.round(2.5) is 3) and textColor
\* "#FFFFFF".
C10_SingleColour ==
    GrayScenario =>
        /\ Len(draft) = 1
        /\ Len(usedPalette) = 1
        /\ <<usedPalette[1].r, usedPalette[1].g, usedPalette[1].b>> = <<12, 12, 12>>
        /\ usedPalette[1].textColor = "#FFFFFF"

\* The single-colour scenario run has resolved, all 100 cells counted.
C10_Witness == GrayScenario /\ SumCounts(usedPalette) = 100

\* C11: id uniqueness and ordering. The ids of the palette returned by
\* enforcePixelGrid are pairwise distinct integers >= 1 in strictly ascending
\* order.
C11_IdsAscending ==
    Resolved =>
        /\ \A k \in 1..Len(usedPalette) : usedPalette[k].id \in Nat \ {0}
        /\ \A k \in 1..Len(usedPalette), m \in 1..Len(usedPalette) :
              k < m => usedPalette[k].id < usedPalette[m].id

\* A resolved run whose final palette has a gap between two ids (a draft entry
\* between them was dropped).
C11_Witness ==
    /\ Resolved
    /\ Len(usedPalette) >= 2
    /\ usedPalette[2].id > usedPalette[1].id + 1

\* The entries of a working palette without their order.
Permutations(n) == {f \in [1..n -> 1..n] : \A a, b \in 1..n : a # b => f[a] # f[b]}

\* C12: draft palette shape. The palette returned by generateStrictPalette
\* with N entries has ids exactly 1..N, every count 0, and the ids follow the
\* merged histogram entries in order of non-increasing count.
C12_DraftShape ==
    pc = "canvas" =>
        /\ Len(draft) = Len(palette)
        /\ \A k \in 1..Len(draft) : draft[k].id = k /\ draft[k].count = 0
        /\ \E f \in Permutations(Len(palette)) :
              /\ \A k \in 1..Len(draft) :
                    /\ draft[k].r = palette[f[k]].r
                    /\ draft[k].g = palette[f[k]].g
                    /\ draft[k].b = palette[f[k]].b
              /\ \A k \in 1..(Len(draft) - 1) :
                    palette[f[k]].count >= palette[f[k + 1]].count

\* generateStrictPalette has returned three entries and the sort had to move
\* a later, larger entry to the front.
C12_Witness ==
    /\ pc = "canvas"
    /\ Len(draft) = 3
    /\ palette[1].count < palette[3].count

\* C13: contrast correctness. For every palette item textColor is "#000000"
\* exactly when 299 r + 587 g + 114 b >= 128000 and "#FFFFFF" otherwise, on the
\* item's own final r, g, b.
C13_Contrast ==
    DraftReady =>
        \A k \in 1..Len(draft) :
            LET luma1000 == 299 * draft[k].r + 587 * draft[k].g + 114 * draft[k].b
            IN /\ draft[k].textColor \in {"#000000", "#FFFFFF"}
               /\ draft[k].textColor = "#000000" <=> luma1000 >= 128000

\* A resolved run with an item exactly at the threshold (black text), a merged
\* item and an item with white text.
C13_Witness ==
    /\ Resolved
    /\ Len(BuildHistogram(data)) > Len(draft)
    /\ \E k \in 1..Len(usedPalette) :
          /\ 299 * usedPalette[k].r + 587 * usedPalette[k].g + 114 * usedPalette[k].b
                = 128000
          /\ usedPalette[k].textColor = "#000000"
    /\ \E k \in 1..Len(usedPalette) : usedPalette[k].textColor = "#FFFFFF"

\* Pass 1 has run: pixelMap and the recomputed counts exist.
Classified == pc \in {"filter", "draw"} \/ Resolved

\* Squared Euclidean RGB distance from cell k's own colour to draft entry j.
CellDistance(k, j) ==
    (draft[j].r - data[k].r) * (draft[j].r - data[k].r)
      + (draft[j].g - data[k].g) * (draft[j].g - data[k].g)
      + (draft[j].b - data[k].b) * (draft[j].b - data[k].b)

\* Draft entries at the least distance from cell k.
NearestEntries(k) ==
    {j \in 1..Len(draft) : \A m \in 1..Len(draft) : CellDistance(k, j) <= CellDistance(k, m)}

\* C14: classification. Every cell with alpha > 128 gets the id of a draft
\* entry at minimal squared distance from the cell's unrounded colour, the
\* lowest id among several such entries; every cell with alpha <= 128 gets 0.
C14_Classification ==
    Classified =>
        \A k \in Cells :
            IF data[k].a > 128
            THEN \E j \in NearestEntries(k) :
                    /\ pixelMap[k] = draft[j].id
                    /\ \A m \in NearestEntries(k) : draft[j].id <= draft[m].id
            ELSE pixelMap[k] = 0

\* A classified run with an opaque cell that has two nearest entries, the
\* cell's own bucket not being the one with the lowest id, and a cell left 0.
C14_Witness ==
    /\ Classified
    /\ \E k \in Cells :
          /\ data[k].a > 128
          /\ Cardinality(NearestEntries(k)) >= 2
          /\ \E j \in NearestEntries(k) :
                /\ draft[j].id # pixelMap[k]
                /\ draft[j].r = Bucket(data[k].r)
    /\ \E k \in Cells : data[k].a <= 128

\* C15: filter and finalize. The final palette is exactly the draft entries
\* whose recomputed count is > 0, each with the id, r, g, b, hex and textColor
\* (and count) it has in the draft; no entry with count 0 is in it.
C15_FilterFinalize ==
    (pc = "draw" \/ Resolved) =>
        /\ \A k \in 1..Len(usedPalette) :
              /\ usedPalette[k].count > 0
              /\ \E j \in 1..Len(draft) : draft[j] = usedPalette[k]
        /\ \A j \in 1..Len(draft) :
              draft[j].count > 0 => \E k \in 1..Len(usedPalette) : usedPalette[k] = draft[j]
        /\ Len(usedPalette) = Cardinality({j \in 1..Len(draft) : draft[j].count > 0})

\* A resolved run where the filter dropped the draft's first entry and kept
\* two others.
C15_Witness ==
    /\ Resolved
    /\ Len(draft) = 3
    /\ draft[1].count = 0
    /\ Len(usedPalette) = 2

\* The state of the promise against the position of the handler.
C17_Settled ==
    /\ pc = "done" <=> outcome # "none"
    /\ outcome \in {"none", "resolved", "rejected"}
    /\ outcome = "rejected" <=> failure # ""
    /\ failure \in {"", "error event", "Canvas context failed",
                    "Final Canvas context failed"}
    /\ outcome = "resolved" =>
          /\ Len(pixelMap) = resolution * resolution
          /\ Len(canvas) = resolution * resolution
          /\ \A k \in 1..Len(canvas) : canvas[k].block <=> pixelMap[k] # 0
          /\ \A k \in 1..Len(usedPalette) : usedPalette[k].count > 0
    /\ outcome # "resolved" => \A k \in 1..Len(canvas) : ~canvas[k].block
    /\ pc \in {"pending", "reduce", "canvas", "filter", "draw", "done"}

\* C17: typed failure. The promise is settled exactly when the handler has
\* ended; it is rejected exactly when the image failed to load or a drawing
\* context was missing; it is resolved only with the whole result, nothing of
\* which is drawn before; and every step starts from an unsettled promise, so
\* a settled one is never settled again.
C17_TypedFailure ==
    /\ []C17_Settled
    /\ [][outcome = "none" /\ pc # "done"]_vars

\* The call was rejected for the missing final context after
\* generateStrictPalette had returned a palette.
C17_Witness ==
    /\ pc = "done"
    /\ outcome = "rejected"
    /\ failure = "Final Canvas context failed"
    /\ Len(draft) >= 2

\* C18: the source buffer is read-only. No step of generateStrictPalette or of
\* the classification pass changes a byte of the pixel buffer.
C18_BufferReadOnly == [][data' = data]_vars

\* The histogram, the merges and the classification pass have all run over a
\* buffer of four opaque cells.
C18_Witness ==
    /\ pc = "filter"
    /\ Cardinality(OpaqueCells) = 4
    /\ Len(BuildHistogram(data)) > Len(draft)

\* max(16, floor(1200 / resolution))
CellScale == IF 1200 \div resolution >= 16 THEN 1200 \div resolution ELSE 16

\* C19: render geometry. The scale is max(16, floor(1200 / resolution)), the
\* raster is resolution * scale wide; a cell is drawn iff its index is
\* non-zero, as a block of side scale at (x * scale, y * scale) in the assigned
\* entry's exact r, g, b, with an outline and the id as label.
C19_RenderGeometry ==
    Resolved =>
        /\ finalSize = resolution * CellScale
        /\ \A k \in Cells :
              /\ canvas[k].block <=> pixelMap[k] # 0
              /\ canvas[k].block =>
                    \E j \in 1..Len(usedPalette) :
                        /\ usedPalette[j].id = pixelMap[k]
                        /\ canvas[k].r = usedPalette[j].r
                        /\ canvas[k].g = usedPalette[j].g
                        /\ canvas[k].b = usedPalette[j].b
                        /\ canvas[k].outline
                        /\ canvas[k].label = usedPalette[j].id
                        /\ canvas[k].drawX = ((k - 1) % resolution) * CellScale
                        /\ canvas[k].drawY = ((k - 1) \div resolution) * CellScale
                        /\ canvas[k].size = CellScale

\* Squared distance between entries i and j of a working palette.
PairDistance(pal, i, j) ==
    (pal[i].r - pal[j].r) * (pal[i].r - pal[j].r)
      + (pal[i].g - pal[j].g) * (pal[i].g - pal[j].g)
      + (pal[i].b - pal[j].b) * (pal[i].b - pal[j].b)

PairsOf(pal) == {p \in (1..Len(pal)) \X (1..Len(pal)) : p[1] < p[2]}

\* Pairs at the least distance.
ClosestPairs(pal) ==
    {p \in PairsOf(pal) :
        \A q \in PairsOf(pal) : PairDistance(pal, p[1], p[2]) <= PairDistance(pal, q[1], q[2])}

\* p comes first in lexicographic index order among the closest pairs.
FirstClosestPair(pal, p) ==
    /\ p \in ClosestPairs(pal)
    /\ \A q \in ClosestPairs(pal) : p[1] < q[1] \/ (p[1] = q[1] /\ p[2] <= q[2])

\* C20: merge pair selection. Every iteration of the reduction loop merges a
\* pair of minimum squared distance among all unordered pairs, the first in
\* lexicographic index order among the pairs at that distance.
C20_MergePairSelection ==
    [][(pc = "reduce" /\ palette' # palette) =>
          \E p \in PairsOf(palette) :
              /\ FirstClosestPair(palette, p)
              /\ palette' = MergePair(palette, p[1], p[2])]_vars

\* A merge is about to run on a palette where two pairs are at the least
\* distance and the lexicographically first is not the last one scanned.
C20_Witness ==
    /\ pc = "reduce"
    /\ CanMerge
    /\ Len(palette) >= 3
    /\ Cardinality(ClosestPairs(palette)) >= 2

\* v is num / den rounded to the nearest integer, a half going up.
IsRounded(v, num, den) == 2 * num - den < 2 * v * den /\ 2 * v * den <= 2 * num + den

\* pal2 is pal after entry j was merged into entry i.
IsMergeOf(pal, pal2, i, j) ==
    LET total == pal[i].count + pal[j].count
        rest  == (1..Len(pal)) \ {i, j}
        rest2 == (1..Len(pal2)) \ {i}
    IN /\ Len(pal2) = Len(pal) - 1
       /\ pal2[i].count = total
       /\ IsRounded(pal2[i].r, pal[i].r * pal[i].count + pal[j].r * pal[j].count, total)
       /\ IsRounded(pal2[i].g, pal[i].g * pal[i].count + pal[j].g * pal[j].count, total)
       /\ IsRounded(pal2[i].b, pal[i].b * pal[i].count + pal[j].b * pal[j].count, total)
       /\ \E f \in [rest2 -> rest] :
             /\ \A a, b \in rest2 : a # b => f[a] # f[b]
             /\ \A k \in rest2 : pal2[k] = pal[f[k]]

\* C21: merge step. Merging entry j into entry i sets each channel of i to the
\* rounded count-weighted average and its count to the sum of the two counts,
\* removes exactly entry j, and leaves every other entry's colour and count
\* as they were.
C21_MergeStep ==
    [][(pc = "reduce" /\ palette' # palette) =>
          \E p \in PairsOf(palette) : IsMergeOf(palette, palette', p[1], p[2])]_vars

\* One merge has run on a histogram of three entries: the entry merged away
\* was not the last one, and the average of some channel was not an integer.
C21_Witness ==
    LET hist == BuildHistogram(data)
        s    == ClosestPair(hist)
    IN /\ pc = "reduce"
       /\ Len(hist) = 3
       /\ Len(palette) = 2
       /\ s.idx2 # 3
       /\ palette = MergePair(hist, s.idx1, s.idx2)
       /\ (hist[s.idx1].r * hist[s.idx1].count + hist[s.idx2].r * hist[s.idx2].count)
             % (hist[s.idx1].count + hist[s.idx2].count) # 0

\* Number of distinct colours among the entries of a working palette.
DistinctColours(pal) == Cardinality({<<pal[k].r, pal[k].g, pal[k].b>> : k \in 1..Len(pal)})

\* The distinct colours of the pixels that enter the histogram.
InputColours == {<<data[k].r, data[k].g, data[k].b>> : k \in {c \in Cells : data[c].a >= 128}}

\* C22: monotone reduction. The histogram has no more distinct colours than
\* the pixels it was built from, no step of the merge stage increases the
\* number of distinct colours among the working entries, and each merge
\* decreases the number of entries by exactly one.
C22_MonotoneReduction ==
    /\ [](pc = "reduce" => DistinctColours(palette) <= Cardinality(InputColours))
    /\ [][pc = "reduce" =>
            /\ DistinctColours(palette') <= DistinctColours(palette)
            /\ palette' # palette => Len(palette') = Len(palette) - 1]_vars

\* Bucketing has already put two of four input colours into one entry, and a
\* merge has then brought the three entries down to two.
C22_Witness ==
    /\ pc = "reduce"
    /\ Cardinality(InputColours) = 4
    /\ Len(BuildHistogram(data)) = 3
    /\ Len(palette) = 2

\* C23: termination of the reduction. For every maxColors, zero and negative
\* included, the reduction loop is left, after exactly
\* max(0, k - max(maxColors, 1)) merges, k being the number of histogram
\* entries: every merge takes one entry away, and when the loop is left that
\* many entries are gone.
C23_Termination ==
    /\ (pc = "reduce") ~> (pc = "canvas")
    /\ [][(pc = "reduce" /\ palette' # palette) => Len(palette') = Len(palette) - 1]_vars
    /\ [](pc = "canvas" =>
            Len(BuildHistogram(data)) - Len(palette)
               = Max(0, Len(BuildHistogram(data)) - Max(maxColors, 1)))

\* The loop was left after three merges on a histogram of four entries, with
\* maxColors zero or negative.
C23_Witness ==
    /\ pc = "canvas"
    /\ maxColors <= 0
    /\ Len(BuildHistogram(data)) = 4
    /\ Len(palette) = 1

\* The pixels that pass the histogram's alpha test.
CountedCells == {k \in Cells : data[k].a >= 128}

\* C24: histogram mass is conserved. After the histogram build and after every
\* merge the counts of the working entries add up to the number of pixels that
\* passed the histogram's alpha test, and that number is the number of cells
\* later classified to a non-zero id.
C24_MassConserved ==
    /\ pc = "reduce" => SumCounts(palette) = Cardinality(CountedCells)
    /\ Classified =>
          Cardinality(CountedCells) = Cardinality({k \in Cells : pixelMap[k] # 0})

\* Entry e has the colour of the quantization bucket of cell k.
OwnBucket(e, k) ==
    /\ e.r = Bucket(data[k].r)
    /\ e.g = Bucket(data[k].g)
    /\ e.b = Bucket(data[k].b)

\* C25: classification agrees with bucketing when nothing is merged. If the
\* histogram has at most maxColors entries, every cell with alpha > 128 gets
\* the id of the entry made from the cell's own bucket, and each final count
\* is that entry's histogram count.
C25_BucketAgreement ==
    (Classified /\ Len(BuildHistogram(data)) <= maxColors) =>
        /\ \A k \in OpaqueCells :
              \E j \in 1..Len(draft) : draft[j].id = pixelMap[k] /\ OwnBucket(draft[j], k)
        /\ \A j \in 1..Len(draft) :
              \E h \in 1..Len(palette) :
                  /\ <<palette[h].r, palette[h].g, palette[h].b>>
                        = <<draft[j].r, draft[j].g, draft[j].b>>
                  /\ draft[j].count = palette[h].count

\* C26: index map integrity. Every pixelMap entry is 0 or the id of an entry
\* of the final palette, each final entry's count is the number of pixelMap
\* cells that hold its id, and the drawing pass draws every non-zero cell.
C26_IndexMapIntegrity ==
    /\ (pc = "draw" \/ Resolved) =>
          /\ \A k \in 1..Len(pixelMap) :
                pixelMap[k] = 0 \/ \E j \in 1..Len(usedPalette) : usedPalette[j].id = pixelMap[k]
          /\ \A j \in 1..Len(usedPalette) :
                usedPalette[j].count
                   = Cardinality({k \in 1..Len(pixelMap) : pixelMap[k] = usedPalette[j].id})
    /\ Resolved => \A k \in 1..Len(pixelMap) : pixelMap[k] # 0 => canvas[k].block

\* A resolved run whose index map holds a zero, an id used once and an id used
\* twice, the draft having had an entry no cell was assigned to.
C26_Witness ==
    /\ Resolved
    /\ \E k \in 1..Len(pixelMap) : pixelMap[k] = 0
    /\ \E j \in 1..Len(usedPalette) : usedPalette[j].count = 1
    /\ \E j \in 1..Len(usedPalette) : usedPalette[j].count = 2
    /\ Len(draft) > Len(usedPalette)

\* C27: caller-side parameter enforcement. Whatever the sequence of slider
\* changes, number-input changes, blur events and button clicks, every call of
\* generatePixelArtRefactor or reprocessPixelArt passes resolution in
\* [20, 200] and maxColors in [2, 256].
C27_ParameterEnforcement ==
    \A c \in pending : c.resolution \in 20..200 /\ c.maxColors \in 2..256

GenerateCalls == {c \in pending : c.fn = "generatePixelArtRefactor"}

\* C28: single generation in flight. Under any interleaving of user events
\* and completions, status is GENERATING whenever a generatePixelArtRefactor
\* call is pending, at most one such call is pending, and no completion
\* installs a result for a target other than the present one.
C28_SingleGeneration ==
    /\ [](GenerateCalls # {} => status = "GENERATING")
    /\ [](Cardinality(GenerateCalls) <= 1)
    /\ [][(result' # result /\ result' # NoResult) =>
             targetImage' \in {0, result'.target}]_vars

ReprocessCalls == {c \in pending : c.fn = "reprocessPixelArt"}

\* C29: reprocess keeps the raw source. No reprocess call starts while there
\* is no result with rawBase64; when a call ends, isReprocessing is false and
\* either the new result carries the rawBase64 the call was given, with status
\* and errorMsg as they were, or result and status are as they were and
\* errorMsg is the failure message; and isReprocessing always returns to
\* false.
C29_ReprocessKeepsRaw ==
    /\ [][result.rawBase64 = 0 =>
             /\ ReprocessCalls' \subseteq ReprocessCalls
             /\ isReprocessing' => isReprocessing]_vars
    /\ [][\A c \in ReprocessCalls \ ReprocessCalls' :
             /\ ~isReprocessing'
             /\ \/ /\ result'.rawBase64 = c.rawBase64
                   /\ result'.rawBase64 # 0
                   /\ status' = status
                   /\ errorMsg' = errorMsg
                \/ /\ result' = result
                   /\ status' = status
                   /\ errorMsg' = "Failed to reprocess image."]_vars
    /\ isReprocessing ~> ~isReprocessing

\* A reprocess call has failed: the result of the generation is still there
\* with its rawBase64, status is still SUCCESS, and the flag is back to false.
C29_Witness ==
    /\ ~isReprocessing
    /\ errorMsg = "Failed to reprocess image."
    /\ result.rawBase64 # 0
    /\ status = "SUCCESS"
    /\ pending = {}

====
